---- MODULE Spec2Model ----
(***************************************************************************)
(* A model of the two cores of obsidian-iconize:                           *)
(*   - the outline injection pipeline (OutlineInternalPlugin): register,   *)
(*     the deferred region-ready step, the one-shot 'allIconsLoaded'       *)
(*     handler, the MutationObserver callback and the label scan;          *)
(*   - the custom-rule engine: doesMatchFileType, doesMatchPath with its   *)
(*     regexCache, isApplicable, add, addToAllFiles, removeFromAllFiles,   *)
(*     getSortedRules, getFileItems.                                       *)
(* SpecOutline is the state machine of the first; SpecRules is that of the *)
(* second called with single rules, SpecBatch that of the batches over the *)
(* stored, sorted rules.                                                   *)
(***************************************************************************)
EXTENDS Integers, Sequences, FiniteSets, TLC

(***************************************************************************)
(* Bounds of the model.                                                    *)
(***************************************************************************)
\* register calls (made while enabled) a behaviour may contain
MaxRegs == 2
\* mutation records the host may leave pending on one observer
MaxQueue == 2
\* rules settings.rules may hold
MaxRules == 2
\* characters of a label's text
MaxText == 6

\* the tree items the host may create in the outline, in document order
Items == {1, 2}

(***************************************************************************)
(* State of the outline pipeline.                                          *)
(***************************************************************************)
VARIABLES
  enabled,        \* get enabled(): the outline core plugin's enabled flag
  apiDeferred,    \* requireApiVersion('1.7.2')
  leafOpen,       \* get leaf(): an outline leaf exists
  registered,     \* this.registered
  observer,       \* this.observer: 0 (null) or the observer's id
  pipe,           \* one entry per register call that passed the enabled check
  listeners,      \* once('allIconsLoaded') subscriptions, in order
  pendingReady,   \* register calls whose loadIfDeferred() promise is pending
  cachedRegex,    \* this.cachedIconShortcodeRegex
  cachedNavSize,  \* this.cachedNavItemSize
  iconIdentifier, \* settings.iconIdentifier
  items,          \* the tree items of the outline and their labels
  last,           \* the operation that ran last and the labels it scanned
  raised,         \* an operation raised an error
  tornDown        \* a batch arrived while disabled, and no register since

outlineVars == <<enabled, apiDeferred, leafOpen, registered, observer, pipe,
                 listeners, pendingReady, cachedRegex, cachedNavSize,
                 iconIdentifier, items, last, raised, tornDown>>

(***************************************************************************)
(* State of the custom-rule engine.                                        *)
(***************************************************************************)
VARIABLES
  rules,       \* settings.rules, the stored rule sequence
  vault,       \* vault.getAbstractFileByPath: "file", "folder" or "absent"
  iconData,    \* what plugin.getIconNameFromPath reports for a path
  iconCache,   \* IconCache: the Icon Assignment Cache
  iconAt,      \* the icon node rendered in the element of a path
  strays,      \* icon nodes without a parent or without a data-path
  regexCache,  \* regexCache: the Pattern Cache
  compiles,    \* calls of new RegExp made so far
  seen,        \* pattern strings passed to doesMatchPath so far
  call,        \* the operation that ran last, and what it returned and did
  threw        \* an operation of the engine raised an error

rulesVars == <<rules, vault, iconData, iconCache, iconAt, strays, regexCache,
               compiles, seen, call, threw>>

(***************************************************************************)
(* State of one label scan at the level of the label's characters.         *)
(***************************************************************************)
VARIABLES
  label,       \* treeItemInner.getText() of the label scanned
  resolvable,  \* the icon names icon.getIconByName finds
  scan         \* the label scan that ran last and what it did

scanVars == <<label, resolvable, scan>>

vars == <<outlineVars, rulesVars, scanVars>>

NoCache == "null"
NavItemSize == "nav-item-size"
Identifiers == {":"}

\* A tree item: label "new" (not created yet), "null" (no tree-item-inner
\* element), "empty" (empty text), "plain" (text without a resolvable
\* shortcode), "code" (text with a shortcode whose icon resolves), "icon"
\* (the shortcode was replaced by an icon element). The host creates items
\* with the labels of HostLabels.
HostLabels == {"null", "plain", "code"}
NewItem == [label |-> "new", present |-> FALSE, parent |-> 0]

TextNode == [kind |-> "text", items |-> <<>>]
SpanNode == [kind |-> "span", items |-> <<>>]

\* The items of a set in document order.
RECURSIVE InOrder(_)
InOrder(S) ==
  IF S = {} THEN <<>>
  ELSE LET m == CHOOSE x \in S : \A y \in S : x <= y
       IN <<m>> \o InOrder(S \ {m})

\* element.querySelector('.tree-item-inner') on the tree item i: its own
\* inner element, else the first one below it in document order, else null (0).
FirstInner(its, i) ==
  IF its[i].label # "null" THEN i
  ELSE LET below == {j \in Items : its[j].parent = i /\ its[j].label \notin {"new", "null"}}
       IN IF below = {} THEN 0 ELSE CHOOSE j \in below : \A k \in below : j <= k

\* A childList record reaches every observer that observes the live region.
Enqueue(pp, rec) ==
  [r \in DOMAIN pp |->
     IF pp[r].obs = "attached" /\ ~pp[r].stale
     THEN [pp[r] EXCEPT !.queue = Append(@, rec)]
     ELSE pp[r]]

\* observer.disconnect(): detaches and drops the pending records.
Disconnect(pp, r) ==
  IF r = 0 THEN pp
  ELSE [pp EXCEPT ![r].obs = "disconnected", ![r].queue = <<>>]

Log(pp, r, ev) == [pp EXCEPT ![r].hist = Append(@, ev)]

(***************************************************************************)
(* The plugin's methods, as functions of the mutable state s they touch:   *)
(* s.cachedRegex, s.cachedNavSize, s.items, s.pipe, s.observer, s.raised,  *)
(* s.scans (the labels scanned so far by the running operation).           *)
(***************************************************************************)
getIconShortcodeRegex(s) ==
  IF s.cachedRegex = NoCache THEN [s EXCEPT !.cachedRegex = s.ident] ELSE s

getNavItemSize(s) ==
  IF s.cachedNavSize = NoCache THEN [s EXCEPT !.cachedNavSize = NavItemSize] ELSE s

\* processTreeItemInner(treeItemInner) leaving the shortcode in the label
ProcessInnerKeepingShortcode(s, t) ==
  IF t = 0 THEN s
  ELSE LET s1 == [s EXCEPT !.scans = Append(@, t)] IN
       IF s.items[t].label = "empty" THEN s1
       ELSE LET s2 == getIconShortcodeRegex(s1) IN
            IF s.items[t].label = "code"
            THEN LET s3 == getNavItemSize(s2) IN
                 [s3 EXCEPT !.pipe = IF s.items[t].present
                                     THEN Enqueue(s3.pipe, [added |-> <<TextNode, SpanNode>>])
                                     ELSE s3.pipe]
            ELSE s2

\* processTreeItemInner(treeItemInner), t the item owning the inner element
\* (0: null). The rewrite of innerHTML is a childList change of the region
\* when the item is in it.
processTreeItemInner(s, t) ==
  IF t = 0 THEN s
  ELSE LET s1 == [s EXCEPT !.scans = Append(@, t)] IN
       IF s.items[t].label = "empty" THEN s1
       ELSE LET s2 == getIconShortcodeRegex(s1) IN
            IF s.items[t].label = "code"
            THEN LET s3 == getNavItemSize(s2) IN
                 [s3 EXCEPT !.items[t].label = "icon",
                            !.pipe = IF s.items[t].present
                                     THEN Enqueue(s3.pipe, [added |-> <<TextNode, SpanNode>>])
                                     ELSE s3.pipe]
            ELSE s2

\* for (const treeItem of treeItems) processTreeItemInner(treeItem.querySelector(...))
RECURSIVE ScanItems(_, _)
ScanItems(s, seq) ==
  IF seq = <<>> THEN s
  ELSE ScanItems(processTreeItemInner(s, FirstInner(s.items, Head(seq))), Tail(seq))

\* processTreeItems(root) on the region: every tree item present in it.
processTreeItems(s) ==
  ScanItems(s, InOrder({i \in Items : s.items[i].present}))

\* The callback's work for one added node.
ProcessNodeWithNested(s, node) ==
  IF node.kind = "text" THEN s
  ELSE IF node.kind = "item"
       THEN ScanItems(s, InOrder({node.items[1]}
                                   \cup {j \in Items : s.items[j].parent = node.items[1]}))
       ELSE ScanItems(s, node.items)

ProcessNode(s, node) ==
  IF node.kind = "text" THEN s
  ELSE IF node.kind = "item"
       THEN processTreeItemInner(s, FirstInner(s.items, node.items[1]))
       ELSE ScanItems(s, node.items)

RECURSIVE ProcessNodes(_, _)
ProcessNodes(s, nodes) ==
  IF nodes = <<>> THEN s
  ELSE ProcessNodes(ProcessNode(s, Head(nodes)), Tail(nodes))

RECURSIVE ProcessRecords(_, _)
ProcessRecords(s, recs) ==
  IF recs = <<>> THEN s
  ELSE ProcessRecords(
         IF Len(Head(recs).added) = 0 THEN s ELSE ProcessNodes(s, Head(recs).added),
         Tail(recs))

\* The MutationObserver callback of observer r, called with its pending records.
callback(s, r, recs, en) ==
  IF ~en
  THEN [s EXCEPT !.pipe = Disconnect(s.pipe, s.observer), !.observer = 0]
  ELSE ProcessRecords(s, recs)

\* new MutationObserver(callback); observe(containerEl, {childList, subtree})
AttachObserver(s, r) ==
  [s EXCEPT !.observer = r,
            !.pipe = Log([s.pipe EXCEPT ![r].obs = "attached"], r, "attach")]

InvalidateCaches(s, r) ==
  [s EXCEPT !.cachedRegex = NoCache, !.cachedNavSize = NoCache,
            !.pipe = Log(s.pipe, r, "reset")]

InitialScan(s, r) ==
  LET s1 == processTreeItems(s) IN [s1 EXCEPT !.pipe = Log(s1.pipe, r, "scan")]

\* The 'allIconsLoaded' handler subscribed by register call r.
\* this.leaf is undefined when no leaf exists: reading .view of it raises.
HandlerAttachFirst(s, r, leaf) ==
  LET s0 == InvalidateCaches([s EXCEPT !.pipe = Log(s.pipe, r, "signal")], r) IN
  IF ~leaf THEN [s0 EXCEPT !.raised = TRUE]
  ELSE InitialScan(AttachObserver(s0, r), r)

iconsLoadedHandler(s, r, leaf) ==
  LET s0 == InvalidateCaches([s EXCEPT !.pipe = Log(s.pipe, r, "signal")], r) IN
  IF ~leaf THEN [s0 EXCEPT !.raised = TRUE]
  ELSE AttachObserver(InitialScan(s0, r), r)

\* emit('allIconsLoaded'): the once-listeners run in subscription order; a
\* listener that raises ends the emit.
RECURSIVE RunListeners(_, _, _)
RunListeners(s, ls, leaf) ==
  IF ls = <<>> \/ s.raised THEN s
  ELSE RunListeners(iconsLoadedHandler(s, Head(ls), leaf), Tail(ls), leaf)

State(scans0) ==
  [cachedRegex |-> cachedRegex, cachedNavSize |-> cachedNavSize, items |-> items,
   pipe |-> pipe, observer |-> observer, raised |-> FALSE, scans |-> scans0,
   ident |-> iconIdentifier]

Commit(s) ==
  /\ cachedRegex' = s.cachedRegex
  /\ cachedNavSize' = s.cachedNavSize
  /\ items' = s.items
  /\ pipe' = s.pipe
  /\ observer' = s.observer
  /\ raised' = (raised \/ s.raised)

(***************************************************************************)
(* Operations of the outline pipeline.                                     *)
(***************************************************************************)
InitOutline ==
  /\ enabled \in BOOLEAN
  /\ apiDeferred \in BOOLEAN
  /\ leafOpen \in BOOLEAN
  /\ registered = FALSE
  /\ observer = 0
  /\ pipe = <<>>
  /\ listeners = <<>>
  /\ pendingReady = {}
  /\ cachedRegex = NoCache
  /\ cachedNavSize = NoCache
  /\ iconIdentifier \in Identifiers
  /\ items = [i \in Items |-> NewItem]
  /\ last = [op |-> "init", reg |-> 0, scans |-> <<>>]
  /\ raised = FALSE
  /\ tornDown = FALSE

QueueRoom == \A r \in DOMAIN pipe : Len(pipe[r].queue) < MaxQueue

\* MutationObserver callbacks are microtasks: the pending records are
\* delivered when the task that changed the region ends, before the next
\* event (a call of register, a signal, a toggle) is handled.
Idle == \A r \in DOMAIN pipe : pipe[r].queue = <<>>

\* register()
RegisterUnchecked ==
  /\ UNCHANGED <<rulesVars, scanVars>>
  /\ Idle
  /\ Len(pipe) < MaxRegs
  /\ IF FALSE
     THEN /\ last' = [op |-> "registerSkipped", reg |-> 0, scans |-> <<>>]
          /\ UNCHANGED <<enabled, apiDeferred, leafOpen, registered, observer, pipe,
                         listeners, pendingReady, cachedRegex, cachedNavSize,
                         iconIdentifier, items, raised, tornDown>>
     ELSE LET r == Len(pipe) + 1
              old == IF registered /\ observer # 0 THEN observer ELSE 0
              p0 == Append(Disconnect(pipe, old),
                           [hist |-> <<"register">>, obs |-> "none",
                            stale |-> FALSE, queue |-> <<>>])
          IN /\ registered' = TRUE
             /\ observer' = IF old # 0 THEN 0 ELSE observer
             /\ tornDown' = FALSE
             /\ last' = [op |-> "register", reg |-> r, scans |-> <<>>]
             /\ IF apiDeferred
                THEN IF leafOpen
                     THEN /\ pendingReady' = pendingReady \cup {r}
                          /\ pipe' = p0
                          /\ UNCHANGED <<listeners, raised>>
                     ELSE /\ raised' = TRUE
                          /\ pipe' = p0
                          /\ UNCHANGED <<listeners, pendingReady>>
                ELSE /\ listeners' = Append(listeners, r)
                     /\ pipe' = Log(p0, r, "subscribe")
                     /\ UNCHANGED <<pendingReady, raised>>
             /\ UNCHANGED <<enabled, apiDeferred, leafOpen, cachedRegex,
                            cachedNavSize, iconIdentifier, items>>

Register ==
  /\ UNCHANGED <<rulesVars, scanVars>>
  /\ Idle
  /\ Len(pipe) < MaxRegs
  /\ IF ~enabled
     THEN /\ last' = [op |-> "registerSkipped", reg |-> 0, scans |-> <<>>]
          /\ UNCHANGED <<enabled, apiDeferred, leafOpen, registered, observer, pipe,
                         listeners, pendingReady, cachedRegex, cachedNavSize,
                         iconIdentifier, items, raised, tornDown>>
     ELSE LET r == Len(pipe) + 1
              old == IF registered /\ observer # 0 THEN observer ELSE 0
              p0 == Append(Disconnect(pipe, old),
                           [hist |-> <<"register">>, obs |-> "none",
                            stale |-> FALSE, queue |-> <<>>])
          IN /\ registered' = TRUE
             /\ observer' = IF old # 0 THEN 0 ELSE observer
             /\ tornDown' = FALSE
             /\ last' = [op |-> "register", reg |-> r, scans |-> <<>>]
             /\ IF apiDeferred
                THEN IF leafOpen
                     THEN /\ pendingReady' = pendingReady \cup {r}
                          /\ pipe' = p0
                          /\ UNCHANGED <<listeners, raised>>
                     ELSE /\ raised' = TRUE
                          /\ pipe' = p0
                          /\ UNCHANGED <<listeners, pendingReady>>
                ELSE /\ listeners' = Append(listeners, r)
                     /\ pipe' = Log(p0, r, "subscribe")
                     /\ UNCHANGED <<pendingReady, raised>>
             /\ UNCHANGED <<enabled, apiDeferred, leafOpen, cachedRegex,
                            cachedNavSize, iconIdentifier, items>>

\* this.leaf.loadIfDeferred().then(setOutlineIcons): the promise of register
\* call r resolves and setOutlineIcons subscribes the handler.
RegionReady ==
  /\ UNCHANGED <<rulesVars, scanVars>>
  /\ \E r \in pendingReady :
    /\ Idle
    /\ pendingReady' = pendingReady \ {r}
    /\ listeners' = Append(listeners, r)
    /\ pipe' = Log(Log(pipe, r, "ready"), r, "subscribe")
    /\ last' = [op |-> "regionReady", reg |-> r, scans |-> <<>>]
    /\ UNCHANGED <<enabled, apiDeferred, leafOpen, registered, observer,
                   cachedRegex, cachedNavSize, iconIdentifier, items, raised,
                   tornDown>>

\* The emitter fires 'allIconsLoaded'. Each once-listener is unsubscribed
\* when it is called; after a listener raised, the listeners behind it are
\* either still subscribed or dropped, as the emitter decides.
IconsLoaded ==
  /\ UNCHANGED <<rulesVars, scanVars>>
  /\ Idle
  /\ listeners # <<>>
  /\ LET s == RunListeners(State(<<>>), listeners, leafOpen)
     IN /\ Commit(s)
        /\ last' = [op |-> "iconsLoaded", reg |-> Head(listeners), scans |-> s.scans]
        /\ IF s.raised
           THEN \E keep \in BOOLEAN :
                  listeners' = IF keep THEN Tail(listeners) ELSE <<>>
           ELSE listeners' = <<>>
  /\ UNCHANGED <<enabled, apiDeferred, leafOpen, registered, pendingReady,
                 iconIdentifier, tornDown>>

\* The browser delivers the pending records of observer r to its callback.
Deliver ==
  /\ UNCHANGED <<rulesVars, scanVars>>
  /\ \E r \in DOMAIN pipe :
    /\ pipe[r].obs = "attached"
    /\ pipe[r].queue # <<>>
    /\ LET recs == pipe[r].queue
           s0 == [State(<<>>) EXCEPT !.pipe[r].queue = <<>>]
           s == callback(s0, r, recs, enabled)
       IN /\ Commit(s)
          /\ last' = [op |-> IF enabled THEN "batch" ELSE "batchDisabled",
                      reg |-> r, scans |-> s.scans]
          /\ tornDown' = (tornDown \/ ~enabled)
    /\ UNCHANGED <<enabled, apiDeferred, leafOpen, registered, listeners,
                   pendingReady, iconIdentifier>>

\* The host renders new outline entries: one added node, a tree item (with
\* the other new items nested in it) or another element holding them.
HostAdd ==
  /\ UNCHANGED <<rulesVars, scanVars>>
  /\ leafOpen
  /\ QueueRoom
  /\ \E S \in SUBSET {i \in Items : items[i].label = "new"} :
     \E kind \in {"item", "wrap", "text"} :
     \E labs \in [S -> HostLabels] :
       /\ (kind = "text") = (S = {})
       /\ LET root == CHOOSE x \in S : \A y \in S : x <= y
              node == [kind |-> kind,
                       items |-> IF kind = "item" THEN <<root>> ELSE InOrder(S)]
          IN /\ items' = [i \in Items |->
                            IF i \in S
                            THEN [label |-> labs[i], present |-> TRUE,
                                  parent |-> IF kind = "item" /\ i # root THEN root ELSE 0]
                            ELSE items[i]]
             /\ pipe' = Enqueue(pipe, [added |-> <<node>>])
  /\ last' = [op |-> "hostAdd", reg |-> 0, scans |-> <<>>]
  /\ UNCHANGED <<enabled, apiDeferred, leafOpen, registered, observer, listeners,
                 pendingReady, cachedRegex, cachedNavSize, iconIdentifier,
                 raised, tornDown>>

\* The host removes a tree item (and what is nested in it) from the region.
HostRemove ==
  /\ UNCHANGED <<rulesVars, scanVars>>
  /\ leafOpen
  /\ QueueRoom
  /\ \E i \in Items :
       /\ items[i].present
       /\ items[i].parent = 0
       /\ items' = [j \in Items |->
                      IF j = i \/ items[j].parent = i
                      THEN [items[j] EXCEPT !.present = FALSE] ELSE items[j]]
  /\ pipe' = Enqueue(pipe, [added |-> <<>>])
  /\ last' = [op |-> "hostRemove", reg |-> 0, scans |-> <<>>]
  /\ UNCHANGED <<enabled, apiDeferred, leafOpen, registered, observer, listeners,
                 pendingReady, cachedRegex, cachedNavSize, iconIdentifier,
                 raised, tornDown>>

\* The user toggles the outline core plugin.
Toggle ==
  /\ UNCHANGED <<rulesVars, scanVars>>
  /\ Idle
  /\ enabled' = ~enabled
  /\ last' = [op |-> "toggle", reg |-> 0, scans |-> <<>>]
  /\ UNCHANGED <<apiDeferred, leafOpen, registered, observer, pipe, listeners,
                 pendingReady, cachedRegex, cachedNavSize, iconIdentifier, items,
                 raised, tornDown>>

\* The outline leaf is closed: its region leaves the document, and the
\* observers on it observe a region that no longer changes.
LeafClose ==
  /\ UNCHANGED <<rulesVars, scanVars>>
  /\ Idle
  /\ leafOpen
  /\ leafOpen' = FALSE
  /\ items' = [i \in Items |-> [items[i] EXCEPT !.present = FALSE]]
  /\ pipe' = [r \in DOMAIN pipe |->
                IF pipe[r].obs = "attached" THEN [pipe[r] EXCEPT !.stale = TRUE]
                ELSE pipe[r]]
  /\ last' = [op |-> "leafClose", reg |-> 0, scans |-> <<>>]
  /\ UNCHANGED <<enabled, apiDeferred, registered, observer, listeners,
                 pendingReady, cachedRegex, cachedNavSize, iconIdentifier,
                 raised, tornDown>>

\* An outline leaf is opened, with a new, empty region.
LeafOpen ==
  /\ UNCHANGED <<rulesVars, scanVars>>
  /\ Idle
  /\ ~leafOpen
  /\ leafOpen' = TRUE
  /\ last' = [op |-> "leafOpen", reg |-> 0, scans |-> <<>>]
  /\ UNCHANGED <<enabled, apiDeferred, registered, observer, pipe, listeners,
                 pendingReady, cachedRegex, cachedNavSize, iconIdentifier, items,
                 raised, tornDown>>

(***************************************************************************)
(* The label scan of processTreeItemInner at the level of characters.      *)
(* A text is a sequence of characters; indices are those of the code,      *)
(* starting at 0. A shortcode token is the delimiter, one or more word     *)
(* characters, and the delimiter again.                                    *)
(***************************************************************************)
Alphabet == {":", "a", "x"}
WordChars == {"a", "x"}
Texts == UNION {[1..n -> Alphabet] : n \in 0..MaxText}
\* the icon names the icon packs may hold
Names == {<<"a">>, <<"x">>}
\* the values settings.iconIdentifier may be given
IdentifierChoices == {":", "::"}
\* the characters of a delimiter
Delimiter(id) == IF id = "::" THEN <<":", ":">> ELSE <<":">>

Min(a, b) == IF a < b THEN a ELSE b
Max(a, b) == IF a > b THEN a ELSE b

\* String.prototype.substring(a, b): both clamped to 0..length, swapped
\* when a > b.
Substring(str, a, b) ==
  LET ca == Max(0, Min(a, Len(str)))
      cb == Max(0, Min(b, Len(str)))
  IN SubSeq(str, Min(ca, cb) + 1, Max(ca, cb))

\* String.prototype.slice(a, b): a negative index counts from the end, and
\* the result is empty when a >= b.
Slice(str, a, b) ==
  LET ca == IF a < 0 THEN Max(Len(str) + a, 0) ELSE Min(a, Len(str))
      cb == IF b < 0 THEN Max(Len(str) + b, 0) ELSE Min(b, Len(str))
  IN IF ca >= cb THEN <<>> ELSE SubSeq(str, ca + 1, cb)

StartsWithAt(str, i, d) ==
  /\ i + Len(d) <= Len(str)
  /\ \A k \in 1..Len(d) : str[i + k] = d[k]

\* The word characters of str from index i on: how many.
RECURSIVE WordRun(_, _)
WordRun(str, i) ==
  IF i < Len(str) /\ str[i + 1] \in WordChars THEN 1 + WordRun(str, i + 1) ELSE 0

\* The length of the token the pattern of delimiter d matches at index i,
\* 0 when it matches none there.
MatchLength(str, i, d) ==
  IF ~StartsWithAt(str, i, d) THEN 0
  ELSE LET run == WordRun(str, i + Len(d)) IN
       IF run >= 1 /\ StartsWithAt(str, i + Len(d) + run, d)
       THEN 2 * Len(d) + run ELSE 0

\* [...text.matchAll(regex)]: the matches from left to right, each search
\* starting where the match before ended.
RECURSIVE MatchAllFrom(_, _, _)
MatchAllFrom(str, i, d) ==
  IF i >= Len(str) THEN <<>>
  ELSE LET n == MatchLength(str, i, d) IN
       IF n > 0
       THEN <<[text |-> SubSeq(str, i + 1, i + n), index |-> i]>> \o MatchAllFrom(str, i + n, d)
       ELSE MatchAllFrom(str, i + 1, d)

\* .sort((a, b) => a.index - b.index)
RECURSIVE InsertByIndex(_, _)
InsertByIndex(sorted, m) ==
  IF sorted = <<>> THEN <<m>>
  ELSE IF Head(sorted).index <= m.index
       THEN <<Head(sorted)>> \o InsertByIndex(Tail(sorted), m)
       ELSE <<m>> \o sorted

RECURSIVE SortByIndex(_)
SortByIndex(seq) ==
  IF seq = <<>> THEN <<>>
  ELSE InsertByIndex(SortByIndex(SubSeq(seq, 1, Len(seq) - 1)), seq[Len(seq)])

\* const startIndex = code.index - trimmedLength
SpliceAtMatchIndex(index, trimmedLength) == index

spliceStart(index, trimmedLength) == index - trimmedLength

\* The loop of processTreeItemInner over the matches. st.s is the plugin's
\* state, st.text the local text, st.trimmedLength the local offset,
\* st.codes what was done with each match.
RECURSIVE scanCodes(_, _, _, _)
scanCodes(st, codes, identLength, found) ==
  IF codes = <<>> THEN st
  ELSE LET code == Head(codes)
           shortcode == code.text
           iconName == Slice(shortcode, identLength, Len(shortcode) - identLength)
       IN IF iconName \in found
          THEN LET startIndex == spliceStart(code.index, st.trimmedLength)
                   endIndex == code.index + Len(shortcode) - st.trimmedLength
                   str == Substring(st.text, 0, startIndex)
                            \o Substring(st.text, endIndex, Len(st.text))
               IN scanCodes(
                    [s |-> getNavItemSize(st.s),
                     text |-> str,
                     trimmedLength |-> st.trimmedLength + Len(shortcode),
                     codes |-> Append(st.codes,
                                 [text |-> shortcode, index |-> code.index,
                                  iconName |-> iconName, found |-> TRUE,
                                  start |-> startIndex])],
                    Tail(codes), identLength, found)
          ELSE scanCodes(
                 [st EXCEPT !.codes = Append(@,
                                 [text |-> shortcode, index |-> code.index,
                                  iconName |-> iconName, found |-> FALSE,
                                  start |-> code.index])],
                 Tail(codes), identLength, found)

\* processTreeItemInner(treeItemInner) on an inner element with the text
\* given: the pattern is the cached one, the delimiter length is read from
\* the settings.
scanLabel(s, text, found) ==
  IF text = <<>>
  THEN [s |-> s, text |-> text, trimmedLength |-> 0, codes |-> <<>>]
  ELSE LET s1 == getIconShortcodeRegex(s)
           identLength == Len(Delimiter(s1.ident))
           codes == SortByIndex(MatchAllFrom(text, 0, Delimiter(s1.cachedRegex)))
       IN scanCodes([s |-> s1, text |-> text, trimmedLength |-> 0, codes |-> <<>>],
                    codes, identLength, found)

NoScan == [op |-> "none", text |-> <<>>, result |-> <<>>, codes |-> <<>>,
           pattern |-> NoCache, identLength |-> 0]

ScanAtRest ==
  /\ label = <<>>
  /\ resolvable = {}
  /\ scan = NoScan

InitScan ==
  /\ label \in Texts
  /\ resolvable \in SUBSET Names
  /\ scan = NoScan
  /\ enabled = TRUE
  /\ apiDeferred = FALSE
  /\ leafOpen = TRUE
  /\ registered = FALSE
  /\ observer = 0
  /\ pipe = <<>>
  /\ listeners = <<>>
  /\ pendingReady = {}
  /\ cachedRegex = NoCache
  /\ cachedNavSize = NoCache
  /\ iconIdentifier \in IdentifierChoices
  /\ items = [i \in Items |-> NewItem]
  /\ last = [op |-> "init", reg |-> 0, scans |-> <<>>]
  /\ raised = FALSE
  /\ tornDown = FALSE

\* processTreeItemInner runs on the label; afterwards the label's text is
\* the local text, the tokens replaced by icon elements having no text.
ScanLabel ==
  /\ LET st == scanLabel(State(<<>>), label, resolvable)
     IN /\ cachedRegex' = st.s.cachedRegex
        /\ cachedNavSize' = st.s.cachedNavSize
        /\ label' = st.text
        /\ scan' = [op |-> "scan", text |-> label, result |-> st.text,
                    codes |-> st.codes, pattern |-> st.s.cachedRegex,
                    identLength |-> Len(Delimiter(iconIdentifier))]
  /\ UNCHANGED resolvable
  /\ UNCHANGED <<enabled, apiDeferred, leafOpen, registered, observer, pipe,
                 listeners, pendingReady, iconIdentifier, items, last, raised,
                 tornDown>>
  /\ UNCHANGED rulesVars

\* The user changes the delimiter in the settings.
SetIdentifier(id) ==
  /\ id # iconIdentifier
  /\ iconIdentifier' = id
  /\ scan' = [NoScan EXCEPT !.op = "setIdentifier"]
  /\ UNCHANGED <<label, resolvable>>
  /\ UNCHANGED <<enabled, apiDeferred, leafOpen, registered, observer, pipe,
                 listeners, pendingReady, cachedRegex, cachedNavSize, items,
                 last, raised, tornDown>>
  /\ UNCHANGED rulesVars

NextScan ==
  \/ ScanLabel
  \/ \E id \in IdentifierChoices : SetIdentifier(id)

(***************************************************************************)
(* The custom-rule engine.                                                 *)
(* Strings are sequences of characters. The patterns of the model are the  *)
(* regular expressions made of literal characters and ".", with an         *)
(* optional leading "^" and an optional trailing "$"; a pattern holding    *)
(* "(" has an unterminated group, which new RegExp rejects.                *)
(***************************************************************************)
NoIcon == "none"
NoEntry == [iconNameWithPrefix |-> NoIcon, inCustomRule |-> FALSE]
Icons == {"star", "moon"}

\* The folder "b" and the file "(b/a".
PathB == <<"b">>
PathBA == <<"(", "b", "/", "a">>
\* The paths of the model, in the order of their elements in the document.
PathOrder == <<PathB, PathBA>>
Paths == {PathOrder[k] : k \in DOMAIN PathOrder}

\* Icon nodes outside the elements of the paths, first in the document.
StrayKinds == {"noParent", "noDataPath"}
StrayOrder == <<"noParent", "noDataPath">>

\* new RegExp(source) succeeds
Compiles(source) == \A k \in 1..Len(source) : source[k] # "("

RuleUniverse ==
  { [icon |-> "star", for |-> "files",      rule |-> <<"a", "$">>, useFilePath |-> FALSE, order |-> 2],
    [icon |-> "moon", for |-> "everything", rule |-> <<"b">>,      useFilePath |-> TRUE,  order |-> 1],
    [icon |-> "star", for |-> "folders",    rule |-> <<"b">>,      useFilePath |-> FALSE, order |-> 1],
    [icon |-> "moon", for |-> "everything", rule |-> <<"(">>,      useFilePath |-> FALSE, order |-> 1],
    [icon |-> "star", for |-> "files",      rule |-> <<"(">>,      useFilePath |-> TRUE,  order |-> 0],
    [icon |-> "moon", for |-> "files",      rule |-> <<"b">>,      useFilePath |-> TRUE,  order |-> 3] }

\* The rules the stored sequences are drawn from, and the sequences
\* settings.rules may hold: no rule twice.
StoredRules == {r \in RuleUniverse : Compiles(r.rule)}
RuleLists ==
  UNION { {q \in [1..n -> StoredRules] : \A i, j \in 1..n : q[i] = q[j] => i = j}
          : n \in 0..MaxRules }

\* String.prototype.includes
Includes(s, sub) ==
  \E i \in 0..Len(s) :
    /\ i + Len(sub) <= Len(s)
    /\ \A k \in 1..Len(sub) : s[i + k] = sub[k]

\* path.split('/').pop(): what follows the last '/'
LastSegment(path) ==
  LET slashes == {k \in 1..Len(path) : path[k] = "/"}
      cut == IF slashes = {} THEN 0 ELSE CHOOSE k \in slashes : \A j \in slashes : j <= k
  IN SubSeq(path, cut + 1, Len(path))

\* new RegExp(source).test(subject)
RegexTest(source, subject) ==
  LET fromStart == Len(source) > 0 /\ source[1] = "^"
      toEnd == Len(source) > 0 /\ source[Len(source)] = "$"
      body == SubSeq(source, IF fromStart THEN 2 ELSE 1,
                             IF toEnd THEN Len(source) - 1 ELSE Len(source))
  IN \E i \in 0..Len(subject) :
       /\ i + Len(body) <= Len(subject)
       /\ fromStart => i = 0
       /\ toEnd => i + Len(body) = Len(subject)
       /\ \A k \in 1..Len(body) : body[k] = "." \/ body[k] = subject[i + k]

\* rules.sort((a, b) => a.order - b.order): a stable sort, by insertion.
RECURSIVE InsertByOrder(_, _)
InsertByOrder(sorted, r) ==
  IF sorted = <<>> THEN <<r>>
  ELSE IF Head(sorted).order <= r.order
       THEN <<Head(sorted)>> \o InsertByOrder(Tail(sorted), r)
       ELSE <<r>> \o sorted

RECURSIVE SortByOrder(_)
SortByOrder(seq) ==
  IF seq = <<>> THEN <<>>
  ELSE InsertByOrder(SortByOrder(SubSeq(seq, 1, Len(seq) - 1)), seq[Len(seq)])

(***************************************************************************)
(* The engine's functions, as functions of the mutable state e they touch: *)
(* e.regexCache, e.compiles, e.seen, e.iconCache, e.iconAt, e.threw, and   *)
(* of what the running operation did: e.ret (the value returned),          *)
(* e.rets (the values add returned), e.writes (IconCache.set calls),       *)
(* e.renders (dom.createIconNode calls).                                   *)
(***************************************************************************)
doesMatchFileType(rule, fileType) ==
  \/ rule.for = "everything"
  \/ (rule.for = "files" /\ fileType = "file")
  \/ (rule.for = "folders" /\ fileType = "folder")

ToMatch(rule, path) == IF rule.useFilePath THEN path ELSE LastSegment(path)

\* if (!regexCache.has(rule.rule)) { try { set(new RegExp) } catch { set(null) } }
RecompileAlways(e, rule) ==
  [e EXCEPT !.regexCache = [k \in DOMAIN e.regexCache \cup {rule.rule} |->
                              IF k = rule.rule
                              THEN [ok |-> Compiles(rule.rule), source |-> rule.rule]
                              ELSE e.regexCache[k]],
            !.compiles = @ + 1]

resolvePattern(e, rule) ==
  IF rule.rule \in DOMAIN e.regexCache THEN e
  ELSE [e EXCEPT !.regexCache = [k \in DOMAIN e.regexCache \cup {rule.rule} |->
                                   IF k = rule.rule
                                   THEN [ok |-> Compiles(rule.rule), source |-> rule.rule]
                                   ELSE e.regexCache[k]],
                 !.compiles = @ + 1]

\* regex === null ? toMatch.includes(rule.rule) : regex.test(toMatch)
TestAlwaysRegex(entry, rule, subject) ==
  entry.ok /\ RegexTest(entry.source, subject)

testPattern(entry, rule, subject) ==
  IF ~entry.ok THEN Includes(subject, rule.rule)
  ELSE RegexTest(entry.source, subject)

doesMatchPath(e, rule, path) ==
  LET e1 == resolvePattern([e EXCEPT !.seen = @ \cup {rule.rule}], rule)
  IN [e1 EXCEPT !.ret = testPattern(e1.regexCache[rule.rule], rule, ToMatch(rule, path))]

ApplicableWhateverType(e, rule, path) ==
  IF vault[path] = "absent" THEN [e EXCEPT !.ret = FALSE]
  ELSE doesMatchPath(e, rule, path)

isApplicable(e, rule, path) ==
  IF vault[path] = "absent" THEN [e EXCEPT !.ret = FALSE]
  ELSE IF ~doesMatchFileType(rule, vault[path]) THEN [e EXCEPT !.ret = FALSE]
  ELSE doesMatchPath(e, rule, path)

\* The collaborators of the engine.
\* plugin.getIconNameFromPath(path): the icon-name lookup, not the cache.
getIconNameFromPath(path) == iconData[path]

\* dom.doesElementHasIconNode(container), container the element of path
doesElementHasIconNode(e, path) == e.iconAt[path] # NoIcon

\* dom.createIconNode(plugin, path, icon, {container}): the icon node of
\* the path's element shows the icon.
createIconNode(e, path, icon) ==
  [e EXCEPT !.iconAt[path] = icon, !.renders = @ + 1]

\* dom.removeIconInNode(parent), parent the element of path
removeIconInNode(e, path) == [e EXCEPT !.iconAt[path] = NoIcon]

\* IconCache.getInstance().set(path, entry): overwrites
IconCacheSet(e, path, entry) ==
  [e EXCEPT !.iconCache[path] = entry, !.writes = @ + 1]

\* IconCache.getInstance().invalidate(path): removes the entry, if any
IconCacheInvalidate(e, path) == [e EXCEPT !.iconCache[path] = NoEntry]

Return(e, v) == [e EXCEPT !.ret = v, !.rets = Append(@, v)]

\* add(plugin, rule, file, container?), container the element of file.path
AddIgnoringTarget(e, rule, path, container) ==
  IF getIconNameFromPath(path) # NoIcon THEN Return(e, FALSE)
  ELSE LET e1 == isApplicable(e, rule, path) IN
       IF e1.ret
       THEN Return(createIconNode(
                     IconCacheSet(e1, path, [iconNameWithPrefix |-> rule.icon,
                                             inCustomRule |-> TRUE]),
                     path, rule.icon), TRUE)
       ELSE Return(e1, FALSE)

add(e, rule, path, container) ==
  IF container /\ doesElementHasIconNode(e, path) THEN Return(e, FALSE)
  ELSE IF getIconNameFromPath(path) # NoIcon THEN Return(e, FALSE)
  ELSE LET e1 == isApplicable(e, rule, path) IN
       IF e1.ret
       THEN Return(createIconNode(
                     IconCacheSet(e1, path, [iconNameWithPrefix |-> rule.icon,
                                             inCustomRule |-> TRUE]),
                     path, rule.icon), TRUE)
       ELSE Return(e1, FALSE)

\* getFileItems(plugin, rule): the entries isApplicable accepts, in order
RECURSIVE getFileItemsFrom(_, _, _, _)
getFileItemsFrom(e, rule, files, result) ==
  IF files = <<>> THEN [e EXCEPT !.ret = result]
  ELSE LET e1 == isApplicable(e, rule, Head(files))
       IN getFileItemsFrom(e1, rule, Tail(files),
                           IF e1.ret THEN Append(result, Head(files)) ELSE result)

getFileItems(e, rule) == getFileItemsFrom(e, rule, PathOrder, <<>>)

RECURSIVE addEach(_, _, _)
addEach(e, rule, files) ==
  IF files = <<>> THEN e
  ELSE addEach(add(e, rule, Head(files), TRUE), rule, Tail(files))

\* addToAllFiles(plugin, rule): returns nothing
AddToEveryFile(e, rule) ==
  [addEach(e, rule, PathOrder) EXCEPT !.ret = FALSE]

addToAllFiles(e, rule) ==
  LET e1 == getFileItems(e, rule)
  IN [addEach(e1, rule, e1.ret) EXCEPT !.ret = FALSE]

\* The body of removeFromAllFiles's loop for one node: a stray node
\* (kind "noParent" or "noDataPath") or the icon node in the element of a
\* path (kind "path"). e.rets logs whether the node was removed.
RemoveUnchecked(e, rule, node) ==
  IF node.kind # "path" THEN [e EXCEPT !.rets = Append(@, FALSE)]
  ELSE [IconCacheInvalidate(removeIconInNode(e, node.path), node.path)
          EXCEPT !.rets = Append(@, TRUE)]

removeNode(e, rule, node) ==
  IF node.kind = "noParent" THEN [e EXCEPT !.rets = Append(@, FALSE)]
  ELSE IF node.kind = "noDataPath" THEN [e EXCEPT !.rets = Append(@, FALSE)]
  ELSE IF vault[node.path] = "absent" THEN [e EXCEPT !.rets = Append(@, FALSE)]
  ELSE LET e1 == doesMatchPath(e, rule, node.path) IN
       IF e1.ret /\ doesMatchFileType(rule, vault[node.path])
       THEN [IconCacheInvalidate(removeIconInNode(e1, node.path), node.path)
               EXCEPT !.rets = Append(@, TRUE)]
       ELSE [e1 EXCEPT !.rets = Append(@, FALSE)]

RECURSIVE removeEach(_, _, _)
removeEach(e, rule, nodes) ==
  IF nodes = <<>> THEN e
  ELSE removeEach(removeNode(e, rule, Head(nodes)), rule, Tail(nodes))

\* document.querySelectorAll('[icon attribute = rule.icon]'), in document order
RECURSIVE StrayNodes(_, _)
StrayNodes(rule, kinds) ==
  IF kinds = <<>> THEN <<>>
  ELSE (IF strays[Head(kinds)] = rule.icon
        THEN <<[kind |-> Head(kinds), path |-> <<>>]>> ELSE <<>>)
         \o StrayNodes(rule, Tail(kinds))

RECURSIVE PathNodes(_, _, _)
PathNodes(e, rule, paths) ==
  IF paths = <<>> THEN <<>>
  ELSE (IF e.iconAt[Head(paths)] = rule.icon
        THEN <<[kind |-> "path", path |-> Head(paths)]>> ELSE <<>>)
         \o PathNodes(e, rule, Tail(paths))

NodesWithIcon(e, rule) == StrayNodes(rule, StrayOrder) \o PathNodes(e, rule, PathOrder)

removeFromAllFiles(e, rule) ==
  [removeEach(e, rule, NodesWithIcon(e, rule)) EXCEPT !.ret = FALSE]

\* for (const rule of getSortedRules(plugin)) add(plugin, rule, file, container?)
RECURSIVE applyEach(_, _, _, _)
applyEach(e, rs, path, container) ==
  IF rs = <<>> THEN e
  ELSE applyEach(add(e, Head(rs), path, container), Tail(rs), path, container)

Engine ==
  [regexCache |-> regexCache, compiles |-> compiles, seen |-> seen,
   iconCache |-> iconCache, iconAt |-> iconAt, threw |-> FALSE,
   ret |-> FALSE, rets |-> <<>>, writes |-> 0, renders |-> 0]

CommitEngine(e, op) ==
  /\ regexCache' = e.regexCache
  /\ compiles' = e.compiles
  /\ seen' = e.seen
  /\ iconCache' = e.iconCache
  /\ iconAt' = e.iconAt
  /\ threw' = (threw \/ e.threw)
  /\ call' = [op |-> op, ret |-> e.ret, rets |-> e.rets,
              writes |-> e.writes, renders |-> e.renders]

(***************************************************************************)
(* Operations of the custom-rule engine.                                   *)
(***************************************************************************)
RulesAtRest ==
  /\ rules = <<>>
  /\ vault = [p \in Paths |-> "absent"]
  /\ iconData = [p \in Paths |-> NoIcon]
  /\ iconCache = [p \in Paths |-> NoEntry]
  /\ iconAt = [p \in Paths |-> NoIcon]
  /\ strays = [k \in StrayKinds |-> NoIcon]
  /\ regexCache = <<>>
  /\ compiles = 0
  /\ seen = {}
  /\ call = [op |-> "init", ret |-> FALSE, rets |-> <<>>, writes |-> 0, renders |-> 0]
  /\ threw = FALSE

OutlineAtRest ==
  /\ enabled = FALSE
  /\ apiDeferred = FALSE
  /\ leafOpen = FALSE
  /\ registered = FALSE
  /\ observer = 0
  /\ pipe = <<>>
  /\ listeners = <<>>
  /\ pendingReady = {}
  /\ cachedRegex = NoCache
  /\ cachedNavSize = NoCache
  /\ iconIdentifier = ":"
  /\ items = [i \in Items |-> NewItem]
  /\ last = [op |-> "init", reg |-> 0, scans |-> <<>>]
  /\ raised = FALSE
  /\ tornDown = FALSE

InitRules ==
  /\ rules = <<>>
  /\ vault = [p \in Paths |-> IF p = PathB THEN "folder" ELSE "file"]
  /\ iconData = [p \in Paths |-> NoIcon]
  /\ iconCache = [p \in Paths |-> NoEntry]
  /\ iconAt = [p \in Paths |-> NoIcon]
  /\ strays = [k \in StrayKinds |-> IF k = "noParent" THEN "star" ELSE "moon"]
  /\ regexCache = <<>>
  /\ compiles = 0
  /\ seen = {}
  /\ call = [op |-> "init", ret |-> FALSE, rets |-> <<>>, writes |-> 0, renders |-> 0]
  /\ threw = FALSE

\* customRule.add(plugin, rule, file, container?)
Add(rule, path, container) ==
  /\ CommitEngine(add(Engine, rule, path, container), "add")
  /\ UNCHANGED <<rules, vault, iconData, strays>>
  /\ UNCHANGED <<outlineVars, scanVars>>

\* customRule.addToAllFiles(plugin, rule)
AddToAllFiles(rule) ==
  /\ CommitEngine(addToAllFiles(Engine, rule), "addToAllFiles")
  /\ UNCHANGED <<rules, vault, iconData, strays>>
  /\ UNCHANGED <<outlineVars, scanVars>>

\* customRule.removeFromAllFiles(plugin, rule)
RemoveFromAllFiles(rule) ==
  /\ CommitEngine(removeFromAllFiles(Engine, rule), "removeFromAllFiles")
  /\ UNCHANGED <<rules, vault, iconData, strays>>
  /\ UNCHANGED <<outlineVars, scanVars>>

\* customRule.doesMatchPath(rule, path)
DoesMatchPath(rule, path) ==
  /\ CommitEngine(doesMatchPath(Engine, rule, path), "doesMatchPath")
  /\ UNCHANGED <<rules, vault, iconData, strays>>
  /\ UNCHANGED <<outlineVars, scanVars>>

\* customRule.isApplicable(plugin, rule, filePath)
IsApplicable(rule, path) ==
  /\ CommitEngine(isApplicable(Engine, rule, path), "isApplicable")
  /\ UNCHANGED <<rules, vault, iconData, strays>>
  /\ UNCHANGED <<outlineVars, scanVars>>

\* customRule.getSortedRules(plugin): Array.prototype.sort sorts
\* settings.rules in place and returns it.
GetSortedRules ==
  /\ rules' = SortByOrder(rules)
  /\ call' = [op |-> "getSortedRules", ret |-> FALSE, rets |-> <<>>,
              writes |-> 0, renders |-> 0]
  /\ UNCHANGED <<vault, iconData, iconCache, iconAt, strays, regexCache,
                 compiles, seen, threw>>
  /\ UNCHANGED <<outlineVars, scanVars>>

\* A batch: the sorted rules are applied to one file, add called once per
\* rule, with or without the file's element as render target.
ApplySortedRules(path, container) ==
  /\ rules' = SortByOrder(rules)
  /\ CommitEngine(applyEach(Engine, SortByOrder(rules), path, container), "applySortedRules")
  /\ UNCHANGED <<vault, iconData, strays>>
  /\ UNCHANGED <<outlineVars, scanVars>>

\* The user sets an icon by hand: the plugin's data, the cache and the
\* rendered node are written together.
UserSetIcon(path, icon) ==
  /\ iconData' = [iconData EXCEPT ![path] = icon]
  /\ iconCache' = [iconCache EXCEPT ![path] =
                     [iconNameWithPrefix |-> icon, inCustomRule |-> FALSE]]
  /\ iconAt' = [iconAt EXCEPT ![path] = icon]
  /\ call' = [op |-> "userSetIcon", ret |-> FALSE, rets |-> <<>>,
              writes |-> 0, renders |-> 0]
  /\ UNCHANGED <<rules, vault, strays, regexCache, compiles, seen, threw>>
  /\ UNCHANGED <<outlineVars, scanVars>>

\* A file or folder is deleted from the vault while its element is still
\* rendered.
VaultDelete(path) ==
  /\ vault[path] # "absent"
  /\ vault' = [vault EXCEPT ![path] = "absent"]
  /\ call' = [op |-> "vaultDelete", ret |-> FALSE, rets |-> <<>>,
              writes |-> 0, renders |-> 0]
  /\ UNCHANGED <<rules, iconData, iconCache, iconAt, strays, regexCache,
                 compiles, seen, threw>>
  /\ UNCHANGED <<outlineVars, scanVars>>

\* The single operations of the engine, called with any rule.
NextRules ==
  \/ \E r \in RuleUniverse, p \in Paths, c \in BOOLEAN : Add(r, p, c)
  \/ \E r \in RuleUniverse : AddToAllFiles(r)
  \/ \E r \in RuleUniverse : RemoveFromAllFiles(r)
  \/ \E r \in RuleUniverse, p \in Paths : DoesMatchPath(r, p)
  \/ \E r \in RuleUniverse, p \in Paths : IsApplicable(r, p)
  \/ \E p \in Paths, i \in Icons : UserSetIcon(p, i)
  \/ \E p \in Paths : VaultDelete(p)

RulesStart == InitRules /\ OutlineAtRest /\ ScanAtRest

SpecRules == RulesStart /\ [][NextRules]_vars

\* The batches over the stored rules: settings.rules holds any of the rule
\* sequences, and the rules applied and removed are the stored ones.
InitBatch ==
  /\ rules \in RuleLists
  /\ vault = [p \in Paths |-> IF p = PathB THEN "folder" ELSE "file"]
  /\ iconData = [p \in Paths |-> NoIcon]
  /\ iconCache = [p \in Paths |-> NoEntry]
  /\ iconAt = [p \in Paths |-> NoIcon]
  /\ strays = [k \in StrayKinds |-> IF k = "noParent" THEN "star" ELSE "moon"]
  /\ regexCache = <<>>
  /\ compiles = 0
  /\ seen = {}
  /\ call = [op |-> "init", ret |-> FALSE, rets |-> <<>>, writes |-> 0, renders |-> 0]
  /\ threw = FALSE

NextBatch ==
  \/ GetSortedRules
  \/ \E p \in Paths, c \in BOOLEAN : ApplySortedRules(p, c)
  \/ \E k \in DOMAIN rules : RemoveFromAllFiles(rules[k])
  \/ \E p \in Paths, i \in Icons : UserSetIcon(p, i)
  \/ \E p \in Paths : VaultDelete(p)

BatchStart == InitBatch /\ OutlineAtRest /\ ScanAtRest

SpecBatch == BatchStart /\ [][NextBatch]_vars

NextOutline ==
  \/ Register
  \/ RegionReady
  \/ IconsLoaded
  \/ Deliver
  \/ HostAdd
  \/ HostRemove
  \/ Toggle
  \/ LeafClose
  \/ LeafOpen

OutlineStart == InitOutline /\ RulesAtRest /\ ScanAtRest

SpecOutline == OutlineStart /\ [][NextOutline]_vars

\* The pipeline with what the host schedules by itself: a pending
\* loadIfDeferred() promise resolves and pending mutation records are
\* delivered. The 'allIconsLoaded' signal is the icon packs' to give.
SpecOutlineLive ==
  SpecOutline /\ WF_vars(RegionReady) /\ WF_vars(Deliver)

ScanStart == InitScan /\ RulesAtRest

SpecScan == ScanStart /\ [][NextScan]_vars

(***************************************************************************)
(* Claims about the outline pipeline.                                      *)
(***************************************************************************)
Watching == {r \in DOMAIN pipe : pipe[r].obs = "attached" /\ ~pipe[r].stale}

\* C1: in every reachable state at most one structural-change watcher is
\* attached to the outline region; a register call leaves no watcher of an
\* earlier call attached beside the new one.
SingleWatcher == Cardinality(Watching) <= 1

\* The steps of one register call up to the attachment of its watcher.
ActivationSteps ==
  <<"register">> \o (IF apiDeferred THEN <<"ready">> ELSE <<>>)
    \o <<"subscribe", "signal", "reset", "scan", "attach">>

Scanned == {last.scans[k] : k \in DOMAIN last.scans}

\* C2: a watcher exists only for a register call that went, in this order,
\* through region-ready (when the host version requires it), the
\* icons-loaded signal, the reset of both caches and the initial scan of
\* every tree item present; records pend on, and batches are delivered to,
\* only watchers attached after their initial scan.
ActivationOrdering ==
  /\ \A r \in DOMAIN pipe :
        (pipe[r].obs # "none" \/ pipe[r].queue # <<>>) => pipe[r].hist = ActivationSteps
  /\ last.op \in {"batch", "batchDisabled"} => pipe[last.reg].hist = ActivationSteps
  /\ (last.op = "iconsLoaded" /\ observer # 0) =>
        \A i \in Items :
          (items[i].present /\ FirstInner(items, i) # 0) => FirstInner(items, i) \in Scanned

\* C2 witness: on a host that defers loading, a batch was delivered to an
\* attached watcher and a label of it was scanned.
ActivationOrderingWitness ==
  /\ apiDeferred
  /\ last.op = "batch"
  /\ last.scans # <<>>
  /\ pipe[last.reg].obs = "attached"

\* C3: a batch that arrives while the feature is disabled disconnects the
\* watcher, clears the handle and scans nothing; from then on no batch scans
\* a label until register is called again.
DisablementTeardown ==
  /\ last.op = "batchDisabled" =>
        /\ observer = 0
        /\ pipe[last.reg].obs = "disconnected"
        /\ last.scans = <<>>
  /\ (tornDown /\ last.op = "batch") => last.scans = <<>>

\* C10: no operation of the pipeline raises.
NoOperationRaises == ~raised


(***************************************************************************)
(* Claims about the custom-rule engine.                                    *)
(***************************************************************************)
\* What matchesPath and isApplicable are to answer, from the rule alone.
Subject(rule, path) == IF rule.useFilePath THEN path ELSE LastSegment(path)

MatchesRef(rule, path) ==
  IF Compiles(rule.rule) THEN RegexTest(rule.rule, Subject(rule, path))
  ELSE Includes(Subject(rule, path), rule.rule)

ApplicableRef(rule, path) ==
  /\ vault[path] # "absent"
  /\ doesMatchFileType(rule, vault[path])
  /\ MatchesRef(rule, path)

CustomEntry(rule) == [iconNameWithPrefix |-> rule.icon, inCustomRule |-> TRUE]

\* C4: add writes a custom-rule assignment for a path only in a state where
\* the path has neither a cache entry nor an icon reported by the icon-name
\* lookup; it never overwrites a cache entry.
AddOnlyWithoutAssignment ==
  [][\A r \in RuleUniverse, p \in Paths, c \in BOOLEAN :
       (Add(r, p, c) /\ call'.ret) =>
         (iconCache[p] = NoEntry /\ iconData[p] = NoIcon)]_vars

\* C5: when the sorted rules are applied to a path that has no icon of any
\* kind, with or without a render target, and some rule is applicable, there
\* is exactly one cache write and one render request, the assignment is the
\* first applicable rule's, and add returns true for that rule only.
FirstMatchWins ==
  [][\A p \in Paths, c \in BOOLEAN :
       ApplySortedRules(p, c) =>
         LET sorted == SortByOrder(rules)
             applicable == {k \in DOMAIN sorted : ApplicableRef(sorted[k], p)}
         IN (iconCache[p] = NoEntry /\ iconData[p] = NoIcon /\ iconAt[p] = NoIcon
               /\ applicable # {}) =>
              LET first == CHOOSE k \in applicable : \A j \in applicable : k <= j
              IN /\ call'.writes = 1
                 /\ call'.renders = 1
                 /\ iconCache'[p] = CustomEntry(sorted[first])
                 /\ call'.rets = [k \in DOMAIN sorted |-> k = first]]_vars

\* C6: add returns true exactly when the render target passed carries no
\* icon node, the lookup reports no icon and the rule is applicable; then the
\* path's cache entry is the rule's custom assignment and one render is
\* requested. When it returns false the cache and the icon nodes are as
\* before.
AddContract ==
  [][\A r \in RuleUniverse, p \in Paths, c \in BOOLEAN :
       Add(r, p, c) =>
         LET ok == /\ ~(c /\ iconAt[p] # NoIcon)
                   /\ iconData[p] = NoIcon
                   /\ ApplicableRef(r, p)
         IN /\ call'.ret = ok
            /\ ok => /\ iconCache' = [iconCache EXCEPT ![p] = CustomEntry(r)]
                     /\ iconAt' = [iconAt EXCEPT ![p] = r.icon]
                     /\ call'.writes = 1
                     /\ call'.renders = 1
            /\ ~ok => /\ iconCache' = iconCache
                      /\ iconAt' = iconAt
                      /\ call'.writes = 0
                      /\ call'.renders = 0]_vars

\* C6 witness: add returned true and left a custom-rule assignment with its
\* rendered icon node.
AddContractWitness ==
  /\ call.op = "add"
  /\ call.ret
  /\ \E p \in Paths : iconCache[p].inCustomRule /\ iconAt[p] = iconCache[p].iconNameWithPrefix

\* C7: removeFromAllFiles(r) removes the icon node and the cache entry of
\* exactly the paths whose node is tagged r.icon and whose entry exists and
\* matches r by type and path; every other node, the stray ones included,
\* and every other cache entry stay as they are.
RemoveExactlyMatching ==
  [][\A r \in RuleUniverse :
       RemoveFromAllFiles(r) =>
         /\ \A p \in Paths :
              IF iconAt[p] = r.icon /\ ApplicableRef(r, p)
              THEN iconAt'[p] = NoIcon /\ iconCache'[p] = NoEntry
              ELSE iconAt'[p] = iconAt[p] /\ iconCache'[p] = iconCache[p]
         /\ strays' = strays]_vars

\* C7 witness: a run of removeFromAllFiles skipped a node and removed a
\* later one.
RemoveExactlyMatchingWitness ==
  /\ call.op = "removeFromAllFiles"
  /\ \E i, j \in DOMAIN call.rets : i < j /\ ~call.rets[i] /\ call.rets[j]

\* C8: the compile attempts made equal the distinct pattern strings seen;
\* each has one entry, which is what compiling its own string gives, and an
\* entry is never removed or replaced; the answer of matchesPath depends on
\* the pattern string and the subject alone.
PatternCacheCompilesOnce ==
  /\ [](/\ compiles = Cardinality(seen)
        /\ DOMAIN regexCache = seen
        /\ \A k \in seen : regexCache[k] = [ok |-> Compiles(k), source |-> k])
  /\ [][/\ \A k \in DOMAIN regexCache :
             k \in DOMAIN regexCache' /\ regexCache'[k] = regexCache[k]
        /\ \A r \in RuleUniverse, p \in Paths :
             DoesMatchPath(r, p) => call'.ret = MatchesRef(r, p)]_vars

\* C8 witness: addToAllFiles matched one pattern against every entry, twice
\* each, with a single compile.
PatternCacheCompilesOnceWitness ==
  /\ call.op = "addToAllFiles"
  /\ call.writes = Cardinality(Paths)
  /\ compiles = 1

\* C9: for a pattern that does not compile, matchesPath raises nothing and
\* answers whether the subject contains the raw pattern string, on the first
\* call and on every later one; its cache entry stays the fallback marker.
InvalidPatternFallback ==
  /\ [](/\ ~threw
        /\ \A k \in seen : ~Compiles(k) => ~regexCache[k].ok)
  /\ [][\A r \in RuleUniverse, p \in Paths :
          (DoesMatchPath(r, p) /\ ~Compiles(r.rule)) =>
            call'.ret = Includes(Subject(r, p), r.rule)]_vars

\* C9 witness: only a pattern that does not compile was seen, compiled once,
\* and matchesPath answered true.
InvalidPatternFallbackWitness ==
  /\ call.op = "doesMatchPath"
  /\ call.ret
  /\ seen # {}
  /\ \A k \in seen : ~Compiles(k)
  /\ compiles = 1

(***************************************************************************)
(* Further claims about the outline pipeline.                              *)
(***************************************************************************)
\* C15: register called while the feature is disabled sets no flag,
\* disconnects and replaces no watcher, subscribes to nothing and scans no
\* label.
RegisterDisabledNoop ==
  [][(Register /\ ~enabled) =>
       /\ UNCHANGED <<registered, observer, pipe, listeners, pendingReady,
                      items, cachedRegex, cachedNavSize, raised>>
       /\ last'.scans = <<>>]_vars

\* C15 witness: register was skipped while a watcher was attached.
RegisterDisabledNoopWitness ==
  /\ last.op = "registerSkipped"
  /\ ~enabled
  /\ observer # 0
  /\ Watching # {}

\* C18: while the feature is disabled no step scans a label and no step
\* attaches a watcher.
NothingWhileDisabled ==
  [][~enabled => (last'.scans = <<>> /\ Watching' \subseteq Watching)]_vars

\* The labels a batch is to scan for one added node: for a tree item its own
\* label only (own) or the first label in it, its own or a nested one; for
\* another element the label of every tree item in it; for a node that is
\* no element none.
NodeScans(node, own) ==
  IF node.kind = "item"
  THEN LET i == node.items[1] IN
       IF own THEN (IF items[i].label # "null" THEN <<i>> ELSE <<>>)
       ELSE (IF FirstInner(items, i) # 0 THEN <<FirstInner(items, i)>> ELSE <<>>)
  ELSE IF node.kind = "wrap"
       THEN SelectSeq(node.items, LAMBDA i : items[i].label # "null")
       ELSE <<>>

RECURSIVE NodesScans(_, _)
NodesScans(nodes, own) ==
  IF nodes = <<>> THEN <<>>
  ELSE NodeScans(Head(nodes), own) \o NodesScans(Tail(nodes), own)

RECURSIVE BatchScans(_, _)
BatchScans(recs, own) ==
  IF recs = <<>> THEN <<>>
  ELSE NodesScans(Head(recs).added, own) \o BatchScans(Tail(recs), own)

\* C14: a batch delivered while enabled scans, for each added tree item, the
\* first label in it (its own label when it has one, else the first label of
\* a tree item nested in it) and for each other added element the label of
\* every tree item in it; it scans no other label.
IncrementalScanScope ==
  [][(Deliver /\ enabled) => last'.scans = BatchScans(pipe[last'.reg].queue, FALSE)]_vars

\* C14 as stated: for an added tree item the batch scans that item's own
\* label only, never the label of a tree item nested in it.
IncrementalScanScopeOwnLabel ==
  [][(Deliver /\ enabled) => last'.scans = BatchScans(pipe[last'.reg].queue, TRUE)]_vars

\* C14 witness: a batch scanned the label of a tree item nested in an added
\* tree item that has no label of its own.
IncrementalScanScopeWitness ==
  /\ last.op = "batch"
  /\ \E i \in Scanned : items[i].parent # 0 /\ items[items[i].parent].label = "null"

\* Tree items whose label holds a shortcode not yet replaced, and the
\* mutation records pending on all watchers.
Unreplaced == Cardinality({i \in Items : items[i].label = "code"})

RECURSIVE PendingFrom(_, _)
PendingFrom(pp, r) ==
  IF r > Len(pp) THEN 0 ELSE Len(pp[r].queue) + PendingFrom(pp, r + 1)

OwnMutation(rec) == rec.added = <<TextNode, SpanNode>>

\* C17: a batch made of the records of the scan's own rewrites scans and
\* rewrites nothing; and every delivered batch either replaces a shortcode
\* for good or leaves fewer records pending, so the chain of scans and own
\* batches started by finitely many tree items ends with nothing pending.
ScanQuiescence ==
  [][Deliver =>
       /\ (\A k \in DOMAIN pipe[last'.reg].queue : OwnMutation(pipe[last'.reg].queue[k]))
            => (items' = items /\ last'.scans = <<>>
                  /\ PendingFrom(pipe', 1) < PendingFrom(pipe, 1))
       /\ \/ Unreplaced' < Unreplaced
          \/ (Unreplaced' = Unreplaced /\ PendingFrom(pipe', 1) < PendingFrom(pipe, 1))]_vars

\* C17 witness: a batch was delivered, and all that is pending is the record
\* of a rewrite the scan made.
ScanQuiescenceWitness ==
  /\ last.op = "batch"
  /\ last.scans # <<>>
  /\ \E r \in DOMAIN pipe :
       /\ pipe[r].queue # <<>>
       /\ \A k \in DOMAIN pipe[r].queue : OwnMutation(pipe[r].queue[k])

\* C19: a register call made while the feature is enabled and the region
\* exists is followed by a state with an attached watcher, unless the
\* feature is disabled or the region closed first.
ReActivation ==
  (last.op = "register" /\ enabled /\ leafOpen)
    ~> (Watching # {} \/ ~enabled \/ ~leafOpen)

(***************************************************************************)
(* Further claims about the custom-rule engine.                            *)
(***************************************************************************)
\* The position of a rule in a rule sequence that holds it once.
PositionIn(seq, r) == CHOOSE k \in DOMAIN seq : seq[k] = r

\* C11: getSortedRules, alone or in a batch, returns the stored rules in
\* ascending order, rules of equal order in their stored order, and leaves
\* the stored sequence as it was, position for position. The array returned
\* is settings.rules itself, so what is returned is the sequence stored
\* after the call.
SortedRulesReadOnly ==
  [][(GetSortedRules \/ \E p \in Paths, c \in BOOLEAN : ApplySortedRules(p, c)) =>
       /\ {rules'[k] : k \in DOMAIN rules'} = {rules[k] : k \in DOMAIN rules}
       /\ Len(rules') = Len(rules)
       /\ \A i, j \in DOMAIN rules' :
            i < j => \/ rules'[i].order < rules'[j].order
                     \/ /\ rules'[i].order = rules'[j].order
                        /\ PositionIn(rules, rules'[i]) < PositionIn(rules, rules'[j])
       /\ rules' = rules]_vars


\* C13: isApplicable(rule, path) answers true exactly when the vault has an
\* entry for the path, rule.for is 'everything' or names the entry's type,
\* and the path matches the rule's pattern; without an entry it answers
\* false.
ApplicableIffEntryTypeAndPath ==
  [][\A r \in RuleUniverse, p \in Paths :
       IsApplicable(r, p) =>
         call'.ret = (/\ vault[p] # "absent"
                      /\ \/ r.for = "everything"
                         \/ (r.for = "files" /\ vault[p] = "file")
                         \/ (r.for = "folders" /\ vault[p] = "folder")
                      /\ MatchesRef(r, p))]_vars

\* C13 witness: isApplicable answered true, the only pattern seen being one
\* that only the name of the file matches, while the vault held the file
\* and not the folder.
ApplicableIffEntryTypeAndPathWitness ==
  /\ call.op = "isApplicable"
  /\ call.ret
  /\ seen = {<<"a", "$">>}
  /\ vault[PathBA] = "file"
  /\ vault[PathB] = "absent"

\* The applicable paths among those given, in order.
RECURSIVE ApplicablePaths(_, _)
ApplicablePaths(rule, paths) ==
  IF paths = <<>> THEN <<>>
  ELSE (IF ApplicableRef(rule, Head(paths)) THEN <<Head(paths)>> ELSE <<>>)
         \o ApplicablePaths(rule, Tail(paths))

\* The path has no icon: none in the cache, none reported by the lookup,
\* none rendered in its element.
WithoutIcon(p) ==
  iconCache[p] = NoEntry /\ iconData[p] = NoIcon /\ iconAt[p] = NoIcon

\* C16: addToAllFiles(rule) calls add once for each known entry the rule is
\* applicable to, in their order, and for no other; add returns true for
\* those that had no icon, which then have the rule's custom assignment, and
\* every other entry keeps the assignment it had.
AddToAllApplicable ==
  [][\A r \in RuleUniverse :
       AddToAllFiles(r) =>
         LET targets == ApplicablePaths(r, PathOrder) IN
         /\ call'.rets = [k \in DOMAIN targets |-> WithoutIcon(targets[k])]
         /\ \A p \in Paths :
              IF ApplicableRef(r, p) /\ WithoutIcon(p)
              THEN iconCache'[p] = CustomEntry(r)
              ELSE iconCache'[p] = iconCache[p]]_vars

\* C16 witness: addToAllFiles called add for two entries and assigned the
\* rule's icon to one of them only, the other having an icon already.
AddToAllApplicableWitness ==
  /\ call.op = "addToAllFiles"
  /\ Len(call.rets) = 2
  /\ call.writes = 1

(***************************************************************************)
(* Claims about the label scan.                                            *)
(***************************************************************************)
\* The total length of the tokens of codes before the k-th whose icon was
\* found.
RECURSIVE RemovedBefore(_, _)
RemovedBefore(codes, k) ==
  IF k <= 1 THEN 0
  ELSE RemovedBefore(codes, k - 1)
         + (IF codes[k - 1].found THEN Len(codes[k - 1].text) ELSE 0)

\* The characters of str at the positions not in the set, in order.
RECURSIVE Without(_, _, _)
Without(str, positions, i) ==
  IF i > Len(str) THEN <<>>
  ELSE (IF i \in positions THEN <<>> ELSE <<str[i]>>) \o Without(str, positions, i + 1)

\* C12: in a label scan every token whose icon was found is spliced out at
\* its index in the original text less the length of the found tokens
\* before it; the text left is the original text without exactly the found
\* tokens; a token whose icon was not found is still in the text, shifted by
\* the found tokens before it only.
ScanTrimOffsets ==
  scan.op = "scan" =>
    LET codes == scan.codes
        deleted == {i \in 1..Len(scan.text) :
                      \E k \in DOMAIN codes :
                        /\ codes[k].found
                        /\ codes[k].index < i
                        /\ i <= codes[k].index + Len(codes[k].text)}
    IN /\ \A k \in DOMAIN codes :
            codes[k].found => codes[k].start = codes[k].index - RemovedBefore(codes, k)
       /\ scan.result = Without(scan.text, deleted, 1)
       /\ \A k \in DOMAIN codes :
            ~codes[k].found =>
              LET at == codes[k].index - RemovedBefore(codes, k)
              IN SubSeq(scan.result, at + 1, at + Len(codes[k].text)) = codes[k].text

\* C12 witness: a scan removed a token at an index shifted by the tokens it
\* had removed before.
ScanTrimOffsetsWitness ==
  /\ scan.op = "scan"
  /\ \E k \in DOMAIN scan.codes :
       scan.codes[k].found /\ scan.codes[k].start < scan.codes[k].index

\* C20: in every label scan that matched a token, the delimiter length used
\* to strip the token is the length of the delimiter the pattern that
\* matched it was built from.
DelimiterMatchesPattern ==
  (scan.op = "scan" /\ scan.codes # <<>>) =>
    scan.identLength = Len(Delimiter(scan.pattern))

====
